---- MODULE Spec2Model ----
(***************************************************************************)
(* Model of garbanzo's ledger aggregation engine (src/garbanzo/ledger.py). *)
(*                                                                         *)
(* Strings are sequences of one-character strings, so that str.split,      *)
(* str.join and str.startswith are computed character by character.        *)
(* DataFrames are heap objects (heap[ref] is the sequence of rows, each    *)
(* row carrying its index label idx); a Ledger holds references to its     *)
(* three tables, so that two stores sharing one DataFrame object really    *)
(* share it.  Dates are day ordinals of a shrunk calendar.                 *)
(***************************************************************************)
EXTENDS Integers, Sequences, FiniteSets, TLC

\* ------------------------------------------------------------------ bounds
MaxEntries == 2       \* entries of the loaded ledger file
MaxDate == 3          \* last day ordinal a filter bound may take
MaxDepth == 2         \* largest account_depth passed by a caller
DaysPerMonth == 2     \* days per calendar month of the shrunk calendar

\* Optional[T]: None is the empty tuple, a value v is << v >>
None == << >>
Some(v) == << v >>

Min(a, b) == IF a < b THEN a ELSE b
Max(a, b) == IF a > b THEN a ELSE b

\* ----------------------------------------------------------- account paths
Colon == ":"

\* position of the first ':' of s at or after i, 0 when there is none
RECURSIVE FindColon(_, _)
FindColon(s, i) ==
    IF i > Len(s) THEN 0
    ELSE IF s[i] = Colon THEN i
    ELSE FindColon(s, i + 1)

\* account.split(':')
RECURSIVE split_account(_)
split_account(account) ==
    LET i == FindColon(account, 1) IN
    IF i = 0 THEN << account >>
    ELSE << SubSeq(account, 1, i - 1) >>
             \o split_account(SubSeq(account, i + 1, Len(account)))

\* ':'.join(segments)
RECURSIVE Join(_)
Join(segments) ==
    IF segments = << >> THEN << >>
    ELSE IF Len(segments) = 1 THEN segments[1]
    ELSE segments[1] \o << Colon >> \o Join(Tail(segments))

\* mutant: the slice keeps one segment too many
SliceToOneMore(seq, depth) ==
    IF depth >= 0 THEN SubSeq(seq, 1, Min(depth + 1, Len(seq)))
    ELSE SubSeq(seq, 1, Max(Len(seq) + depth, 0))

\* the Python slice seq[:depth]: a negative depth counts from the end
SliceTo(seq, depth) ==
    IF depth >= 0 THEN SubSeq(seq, 1, Min(depth, Len(seq)))
    ELSE SubSeq(seq, 1, Max(Len(seq) + depth, 0))

account_at_depth(account, depth) == Join(SliceTo(split_account(account), depth))

\* str.startswith
StartsWith(s, prefix) ==
    /\ Len(prefix) <= Len(s)
    /\ SubSeq(s, 1, Len(prefix)) = prefix

\* --------------------------------------------------------- the ledger file
Income == << "I" >>
Expenses == << "E" >>
Liabilities == << "L" >>
Assets == << "A" >>
Equity == << "Q" >>
IncomeSalary == << "I", ":", "s" >>
ExpensesTaxes == << "E", ":", "t" >>
ExpensesFood == << "E", ":", "f" >>
ExpensesFoodOut == << "E", ":", "f", ":", "r" >>
ExpensesOther == << "E", "o" >>
LiabilitiesCard == << "L", ":", "c" >>

ACCOUNT_TYPE_NAMES == << "assets", "liabilities", "income", "expenses", "equity" >>

Leg(account, number, currency) ==
    [account |-> account, number |-> number, currency |-> currency]

Txn(date, postings) == [type |-> "Transaction", date |-> date, postings |-> postings]

PriceEntry(date, currency, number, conv) ==
    [type |-> "Price", date |-> date, currency |-> currency,
     number |-> number, conv_currency |-> conv]

\* the entries a ledger file is made of
Entries ==
    { Txn(0, << Leg(IncomeSalary, -5, "USD"), Leg(ExpensesTaxes, 2, "USD") >>),
      Txn(2, << Leg(IncomeSalary, -3, "USD"), Leg(ExpensesFoodOut, 4, "USD") >>),
      Txn(1, << Leg(ExpensesFood, 2, "USD"), Leg(LiabilitiesCard, -2, "USD") >>),
      Txn(1, << Leg(ExpensesOther, 7, "USD"), Leg(ExpensesFood, 6, "EUR") >>),
      PriceEntry(2, "EUR", 3, "USD") }

LedgerFiles == UNION { [1..n -> Entries] : n \in 0..MaxEntries }

\* the options beancount reports: with and without an operating currency
OptionsOf(operating) ==
    [operating_currency |-> operating,
     name_assets |-> Assets, name_liabilities |-> Liabilities,
     name_income |-> Income, name_expenses |-> Expenses, name_equity |-> Equity]

LedgerOptionSets == { OptionsOf(<< >>), OptionsOf(<< "EUR", "USD" >>) }

GarbanzoConfig ==
    [default_start_date |-> None, default_account_depth |-> 3,
     income_deduction_accounts |-> << ExpensesTaxes, LiabilitiesCard >>]

\* --------------------------------------------------------------- Ledger.load
OfType(entries, type) == SelectSeq(entries, LAMBDA e : e.type = type)

\* the posting rows of the transactions from position txn_id on (enumerate)
RECURSIVE PostingRows(_, _)
PostingRows(txns, txn_id) ==
    IF txn_id >= Len(txns) THEN << >>
    ELSE LET txn == txns[txn_id + 1] IN
         [k \in 1..Len(txn.postings) |->
             [txn_id |-> txn_id, date |-> txn.date,
              account |-> txn.postings[k].account,
              amount |-> txn.postings[k].number,
              currency |-> txn.postings[k].currency]]
         \o PostingRows(txns, txn_id + 1)

\* pd.DataFrame(rows): the rows get the index labels 0, 1, ...
DataFrame(rows) ==
    [i \in 1..Len(rows) |-> [idx |-> i - 1, row |-> rows[i]]]

LoadTransactions(entries) ==
    LET txns == OfType(entries, "Transaction") IN
    DataFrame([i \in 1..Len(txns) |-> [date |-> txns[i].date]])

LoadPostings(entries) ==
    DataFrame(PostingRows(OfType(entries, "Transaction"), 0))

LoadPrices(entries) ==
    LET prices == OfType(entries, "Price") IN
    DataFrame([i \in 1..Len(prices) |->
                 [date |-> prices[i].date, currency |-> prices[i].currency,
                  amount |-> prices[i].number,
                  conv_currency |-> prices[i].conv_currency]])

\* ------------------------------------------------------------------- state
VARIABLES
    heap,      \* the DataFrame objects: reference -> rows
    ledger,    \* the loaded store (a frozen dataclass holding references)
    sub,       \* the store the caller got from filter, or None
    call,      \* the call that just returned: operation, receiver, arguments
    result     \* what that call returned or raised

vars == << heap, ledger, sub, call, result >>

Kinds == { "transactions", "postings", "prices" }
Work == << "work", 0 >>
Refs == (Kinds \X {0, 1}) \cup { Work }

Ledger(config, options, transactions, postings, prices) ==
    [config |-> config, options |-> options, transactions |-> transactions,
     postings |-> postings, prices |-> prices]

Idle == [op |-> "idle"]
NoResult == [kind |-> "none"]

Init ==
    \E entries \in LedgerFiles, options \in LedgerOptionSets :
        /\ heap = [r \in Refs |->
                     CASE r = << "transactions", 0 >> -> LoadTransactions(entries)
                       [] r = << "postings", 0 >> -> LoadPostings(entries)
                       [] r = << "prices", 0 >> -> LoadPrices(entries)
                       [] OTHER -> << >>]
        /\ ledger = Ledger(GarbanzoConfig, options, << "transactions", 0 >>,
                           << "postings", 0 >>, << "prices", 0 >>)
        /\ sub = None
        /\ call = Idle
        /\ result = NoResult

\* the stores the caller holds: the loaded one and the one it narrowed last
Receivers == { "ledger" } \cup (IF sub = None THEN {} ELSE { "sub" })
StoreOf(self) == IF self = "ledger" THEN ledger ELSE sub[1]
\* the store the caller aggregates: the narrowed one once there is one
Current == IF sub = None THEN "ledger" ELSE "sub"

\* the frames some store the caller holds refers to
Live(l, s) ==
    { l[k] : k \in Kinds } \cup (IF s = None THEN {} ELSE { s[1][k] : k \in Kinds })

\* --------------------------------------------------------------- properties
main_currency(store) ==
    LET operating_currencies == store.options.operating_currency IN
    IF operating_currencies # << >> THEN operating_currencies[1] ELSE "USD"

account_types(store) ==
    [assets |-> store.options.name_assets,
     liabilities |-> store.options.name_liabilities,
     income |-> store.options.name_income,
     expenses |-> store.options.name_expenses,
     equity |-> store.options.name_equity]

\* ------------------------------------------------------------ FilterOptions
FilterOptions(min_date, max_date) == [min_date |-> min_date, max_date |-> max_date]

OptionalDates == { None } \cup { Some(d) : d \in 0..MaxDate }
AllFilterOptions == { FilterOptions(lo, hi) : lo \in OptionalDates, hi \in OptionalDates }

\* mutant: the lower bound is exclusive
AfterMinDate(df, min_date) == SelectSeq(df, LAMBDA r : r.row.date > min_date)

\* df[df['date'] >= min_date]
FromMinDate(df, min_date) == SelectSeq(df, LAMBDA r : r.row.date >= min_date)

\* df[df['date'] <= max_date]
ToMaxDate(df, max_date) == SelectSeq(df, LAMBDA r : r.row.date <= max_date)

\* the rows of the frame filter_dataframe returns
filter_dataframe(f, df) ==
    LET df1 == IF f.min_date # None THEN FromMinDate(df, f.min_date[1]) ELSE df
    IN  IF f.max_date # None THEN ToMaxDate(df1, f.max_date[1]) ELSE df1

\* filter_dataframe returns df itself when no bound is set, a new frame otherwise
IsNewFrame(f) == f.min_date # None \/ f.max_date # None

\* the frame object the new store holds: the receiver's own when no bound is set
FilteredRef(f, store, kind) ==
    IF IsNewFrame(f) THEN << kind, 1 >> ELSE store[kind]

\* Ledger.filter
Filter(self, f) ==
    LET store == StoreOf(self)
        new == Ledger(store.config, store.options,
                      FilteredRef(f, store, "transactions"),
                      FilteredRef(f, store, "postings"),
                      FilteredRef(f, store, "prices"))
    IN  /\ call = Idle
        /\ heap' = [r \in Refs |->
                      IF IsNewFrame(f) /\ r \in Kinds \X {1}
                      THEN filter_dataframe(f, heap[store[r[1]]])
                      ELSE heap[r]]
        /\ sub' = Some(new)
        /\ call' = [op |-> "filter", self |-> self, filter_options |-> f]
        /\ result' = [kind |-> "ledger", value |-> new]
        /\ UNCHANGED ledger

\* ---------------------------------------------------------------- TimeGrain
\* the grains callers pass here; the other three bucket like "monthly", with
\* other period lengths
TimeGrains == { "daily", "monthly" }

frequency(time_grain) ==
    CASE time_grain = "daily" -> "D"
      [] time_grain = "weekly" -> "W"
      [] time_grain = "monthly" -> "MS"
      [] time_grain = "quarterly" -> "QS"
      [] OTHER -> "YS"

\* the label of the bin pd.Grouper(key = 'date', freq = freq) puts a date in:
\* the day itself for 'D', the first day of its month for 'MS'
PeriodStart(date, freq) ==
    IF freq = "D" THEN date ELSE (date \div DaysPerMonth) * DaysPerMonth

\* ----------------------------------------------------- Ledger.account_flows
RECURSIVE SumAmount(_)
SumAmount(df) ==
    IF df = << >> THEN 0 ELSE Head(df).row.amount + SumAmount(Tail(df))

InPeriod(df, freq, period) ==
    SelectSeq(df, LAMBDA r : PeriodStart(r.row.date, freq) = period)

\* mutant: only the periods that hold a row
BinsOfRows(df, freq) == { PeriodStart(df[i].row.date, freq) : i \in DOMAIN df }

\* the bins of a time grouper: every period from the first date's to the last's
Bins(df, freq) ==
    IF df = << >> THEN {}
    ELSE LET starts == { PeriodStart(df[i].row.date, freq) : i \in DOMAIN df }
             first == CHOOSE p \in starts : \A q \in starts : p <= q
             last == CHOOSE p \in starts : \A q \in starts : q <= p
         IN  { p \in first..last : PeriodStart(p, freq) = p }

\* df.groupby(grouper)['amount'].sum(): one value per bin, 0 for an empty bin
SeriesFlows(df, freq) ==
    [period \in Bins(df, freq) |-> SumAmount(InPeriod(df, freq, period))]

\* df.loc[:, 'account'] = df.account.map(partial(account_at_depth, depth = ...))
Truncated(df, account_depth) ==
    [i \in DOMAIN df |->
        [df[i] EXCEPT !.row.account = account_at_depth(@, account_depth)]]

\* mutant: rows whose account has fewer segments than the depth are lost
GroupedFlowsDeep(df, freq, account_depth) ==
    LET deep == SelectSeq(df, LAMBDA r :
                    Len(split_account(r.row.account)) >= account_depth)
        keys == { << PeriodStart(deep[i].row.date, freq), deep[i].row.account >> :
                    i \in DOMAIN deep }
    IN  [k \in keys |->
            SumAmount(SelectSeq(InPeriod(deep, freq, k[1]),
                                LAMBDA r : r.row.account = k[2]))]

\* grouped.apply(lambda x: x.groupby('account')['amount'].sum()): one value per
\* (period, account) that holds a row; an empty bin contributes no row.  pandas
\* lays the values out as a (period, account)-indexed series, or as a period by
\* account frame when every bin has the same accounts: the same mapping.
GroupedFlows(df, freq, account_depth) ==
    LET keys == { << PeriodStart(df[i].row.date, freq), df[i].row.account >> :
                    i \in DOMAIN df }
    IN  [k \in keys |->
            SumAmount(SelectSeq(InPeriod(df, freq, k[1]),
                                LAMBDA r : r.row.account = k[2]))]

Negate(flows) == [k \in DOMAIN flows |-> 0 - flows[k]]

\* mutant: only income flows are negated
SignedTypesIncomeOnly(store) == { account_types(store).income }

\* the account types whose flows adjust_sign negates
SignedTypes(store) ==
    { account_types(store).income, account_types(store).liabilities }

\* mutant: every flow but those of expenses and assets is negated
AdjustSignExceptExpenses(store, account_prefix, flows) ==
    LET account_type == account_at_depth(account_prefix, 1) IN
    IF account_type \notin { account_types(store).expenses, account_types(store).assets }
    THEN Negate(flows) ELSE flows

\* if adjust_sign: negate the flows of an income or liabilities prefix
AdjustSign(store, account_prefix, flows) ==
    LET account_type == account_at_depth(account_prefix, 1) IN
    IF account_type \in SignedTypes(store) THEN Negate(flows) ELSE flows

FlowArgs(account_prefix, time_grain, currency, account_depth, adjust_sign) ==
    [account_prefix |-> account_prefix, time_grain |-> time_grain,
     currency |-> currency, account_depth |-> account_depth,
     adjust_sign |-> adjust_sign]

\* self.postings[flags]
SelectedPostings(postings, account_prefix, currency) ==
    SelectSeq(postings, LAMBDA r :
        StartsWith(r.row.account, account_prefix) /\ r.row.currency = currency)

\* the working frame df at the end of the call
WorkingFrame(store, postings, a) ==
    LET currency == IF a.currency = None THEN main_currency(store) ELSE a.currency[1]
        df == SelectedPostings(postings, a.account_prefix, currency)
    IN  IF a.account_depth = None THEN df ELSE Truncated(df, a.account_depth[1])

\* what account_flows returns
account_flows(store, postings, a) ==
    LET df == WorkingFrame(store, postings, a)
        freq == frequency(a.time_grain)
        flows == IF a.account_depth = None THEN SeriesFlows(df, freq)
                 ELSE GroupedFlows(df, freq, a.account_depth[1])
    IN  [kind |-> IF a.account_depth = None THEN "series" ELSE "frame",
         data |-> IF a.adjust_sign THEN AdjustSign(store, a.account_prefix, flows)
                  ELSE flows]

\* mutant: df is self.postings itself, not a copy of its selected rows
WorkingRefShared(store) == store.postings

\* the frame object df is: boolean indexing makes a new frame
WorkingRef(store) == Work

Prefixes == { IncomeSalary, Expenses, ExpensesOther, Liabilities }
Currencies == { None, Some("EUR") }
Depths == { None } \cup { Some(d) : d \in 0..MaxDepth }
AllFlowArgs ==
    { FlowArgs(p, g, c, d, s) :
        p \in Prefixes, g \in TimeGrains, c \in Currencies, d \in Depths,
        s \in BOOLEAN }

AccountFlows(self, a) ==
    LET store == StoreOf(self) IN
    /\ call = Idle
    /\ heap' = [heap EXCEPT ![WorkingRef(store)] =
                    WorkingFrame(store, heap[store.postings], a)]
    /\ call' = [op |-> "account_flows", self |-> self, args |-> a]
    /\ result' = account_flows(store, heap[store.postings], a)
    /\ UNCHANGED << ledger, sub >>

\* ----------------------------------------------- Ledger.income_expense_data
NaN == [nan |-> TRUE, value |-> 0]
Float(v) == [nan |-> FALSE, value |-> v]

\* flows.reindex(index).fillna(0.0)
Reindexed(flows, index) ==
    [period \in index |-> IF period \in DOMAIN flows THEN flows[period] ELSE 0]

\* disposable after subtracting the flows of the deduction accounts from k on
RECURSIVE Deducted(_, _, _, _, _, _)
Deducted(store, postings, kw, disposable, accounts, k) ==
    IF k > Len(accounts) THEN disposable
    ELSE LET flows == account_flows(store, postings,
                          [kw EXCEPT !.account_prefix = accounts[k]]).data
             deduction == Reindexed(flows, DOMAIN disposable)
         IN  Deducted(store, postings, kw,
                      [period \in DOMAIN disposable |->
                          disposable[period] - deduction[period]],
                      accounts, k + 1)

\* series.reset_index() with the added 'account' column
LabelledRows(flows, account) ==
    { [date |-> period, account |-> account, amount |-> flows[period]] :
        period \in DOMAIN flows }

\* mutant: savings add the expenses
SavingsOfSum(income, expenses) == income + expenses

\* combined[income_account] - combined[expense_account], row by row
SavingsOf(income, expenses) == income - expenses

\* a cell of pivot(index = 'date', columns = 'account').fillna(0.0)
FilledCell(rows, date, account) ==
    LET cell == { r \in rows : r.date = date /\ r.account = account } IN
    IF cell # {} THEN (CHOOSE r \in cell : TRUE).amount ELSE 0

\* income_expense_data(time_grain, currency = currency): the call without
\* account_depth.  Selecting the two columns raises KeyError when one of them is
\* missing, which is when there is no income flow or no expense flow at all.
income_expense_data(store, postings, time_grain, currency) ==
    LET kw == FlowArgs(<< >>, time_grain, currency, None, TRUE)
        income_account == account_types(store).income
        income == account_flows(store, postings,
                      [kw EXCEPT !.account_prefix = income_account]).data
        disposable == Deducted(store, postings, kw, income,
                               store.config.income_deduction_accounts, 1)
        expense_account == account_types(store).expenses
        expenses == account_flows(store, postings,
                        [kw EXCEPT !.account_prefix = expense_account]).data
        rows == LabelledRows(income, income_account)
                    \cup LabelledRows(expenses, expense_account)
        index == { r.date : r \in rows }
        columns == { r.account : r \in rows }
    IN  IF ~ ({ income_account, expense_account } \subseteq columns)
        THEN [kind |-> "error", error |-> "KeyError"]
        ELSE [kind |-> "table",
              columns |-> << "income", "Disposable", "expenses", "Savings" >>,
              data |-> [date \in index |->
                  LET inc == FilledCell(rows, date, income_account)
                      exp == FilledCell(rows, date, expense_account)
                  IN  [income |-> inc,
                       Disposable |-> IF date \in DOMAIN disposable
                                      THEN Float(disposable[date]) ELSE NaN,
                       expenses |-> exp,
                       Savings |-> SavingsOf(inc, exp)]]]

IncomeExpenseData(self, time_grain, currency) ==
    LET store == StoreOf(self)
        last == FlowArgs(account_types(store).expenses, time_grain, currency,
                         None, TRUE)
    IN  /\ call = Idle
        /\ heap' = [heap EXCEPT ![WorkingRef(store)] =
                        WorkingFrame(store, heap[store.postings], last)]
        /\ call' = [op |-> "income_expense_data", self |-> self,
                    time_grain |-> time_grain, currency |-> currency]
        /\ result' = income_expense_data(store, heap[store.postings],
                                         time_grain, currency)
        /\ UNCHANGED << ledger, sub >>

\* ------------------------------------------------------- account_at_depth
Paths ==
    { << >>, Income, IncomeSalary, ExpensesFoodOut, ExpensesOther, << "E", ":" >> }
IntDepths == (0 - MaxDepth)..(MaxDepth + 1)

AccountAtDepth(account, depth) ==
    /\ call = Idle
    /\ call' = [op |-> "account_at_depth", account |-> account, depth |-> depth]
    /\ result' = [kind |-> "str", value |-> account_at_depth(account, depth)]
    /\ UNCHANGED << heap, ledger, sub >>

\* the caller takes the result; frames no store refers to any more are dropped
Return ==
    /\ call # Idle
    /\ call' = Idle
    /\ result' = NoResult
    /\ heap' = [r \in Refs |-> IF r \in Live(ledger, sub) THEN heap[r] ELSE << >>]
    /\ UNCHANGED << ledger, sub >>

Next ==
    \/ \E self \in Receivers, f \in AllFilterOptions : Filter(self, f)
    \/ \E a \in AllFlowArgs : AccountFlows(Current, a)
    \/ \E g \in TimeGrains, c \in Currencies : IncomeExpenseData(Current, g, c)
    \/ \E account \in Paths, depth \in IntDepths : AccountAtDepth(account, depth)
    \/ Return

Spec == Init /\ [][Next]_vars

\* =============================================================== properties
StoreCalled == StoreOf(call.self)
PostingsCalled == heap[StoreCalled.postings]

\* f.matches(row): both bounds inclusive, an absent bound unbounded
Matches(r, f) ==
    /\ f.min_date = None \/ r.row.date >= f.min_date[1]
    /\ f.max_date = None \/ r.row.date <= f.max_date[1]

PositionIn(df, r) == CHOOSE j \in DOMAIN df : df[j] = r

\* new is the subsequence of the rows of original that match f
IsMatchingSubsequence(original, new, f) ==
    /\ \A i \in DOMAIN new :
          \E j \in DOMAIN original : original[j] = new[i] /\ Matches(original[j], f)
    /\ \A j \in DOMAIN original :
          Matches(original[j], f) => \E i \in DOMAIN new : new[i] = original[j]
    /\ \A i, k \in DOMAIN new :
          i < k => PositionIn(original, new[i]) < PositionIn(original, new[k])
    /\ (f.min_date = None /\ f.max_date = None) => new = original

\* C1: every table of the store filter(f) returns is the subsequence, in the
\* original row order, of the receiver's rows whose date lies within the
\* inclusive bounds of f; with no bound set it is the receiver's table.
FilterKeepsMatchingRows ==
    [][call'.op = "filter" =>
          \A kind \in Kinds :
              IsMatchingSubsequence(heap[StoreOf(call'.self)[kind]],
                                    heap'[sub'[1][kind]], call'.filter_options)]_vars

FilterNarrowedWitness ==
    /\ call.op = "filter"
    /\ call.self = "ledger"
    /\ call.filter_options.min_date # None
    /\ call.filter_options.max_date # None
    /\ Len(heap[sub[1].postings]) > 0
    /\ Len(heap[sub[1].postings]) < Len(heap[ledger.postings])
    /\ \E i \in DOMAIN heap[sub[1].postings] :
          heap[sub[1].postings][i].row.date = call.filter_options.min_date[1]
    /\ \E i \in DOMAIN heap[sub[1].transactions] :
          heap[sub[1].transactions][i].row.date = call.filter_options.max_date[1]

\* prefix is a path-segment prefix of account
IsPathPrefix(prefix, account) ==
    LET p == split_account(prefix)
        a == split_account(account)
    IN  Len(p) <= Len(a) /\ SubSeq(a, 1, Len(p)) = p

RequestedCurrency ==
    IF call.args.currency = None THEN main_currency(StoreCalled)
    ELSE call.args.currency[1]

\* the row of the receiver's posting table a row of the working frame comes from
SourceRow(r) == CHOOSE o \in { PostingsCalled[j] : j \in DOMAIN PostingsCalled } :
                    o.idx = r.idx

\* C2: account_flows selects a posting only if account_prefix is a path-segment
\* prefix of its account and its currency is the requested one.
SelectsBySegmentPrefix ==
    call.op = "account_flows" =>
        \A i \in DOMAIN heap[Work] :
            /\ IsPathPrefix(call.args.account_prefix, SourceRow(heap[Work][i]).row.account)
            /\ SourceRow(heap[Work][i]).row.currency = RequestedCurrency

RECURSIVE SumOver(_, _)
SumOver(flows, keys) ==
    IF keys = {} THEN 0
    ELSE LET k == CHOOSE x \in keys : TRUE
         IN  flows[k] + SumOver(flows, keys \ { k })

ValueAt(flows, period) == IF period \in DOMAIN flows THEN flows[period] ELSE 0

\* what the same call without account_depth returns
FlatFlows ==
    account_flows(StoreCalled, PostingsCalled,
                  [call.args EXCEPT !.account_depth = None]).data

\* C3: for every account_depth d >= 0 and every period, the flow without
\* account_depth equals the sum over the truncated accounts of the flows with
\* account_depth = d, a period missing on one side counting as 0.
DepthFlowsSumToFlatFlows ==
    (call.op = "account_flows" /\ call.args.account_depth # None) =>
        \A period \in DOMAIN FlatFlows \cup { k[1] : k \in DOMAIN result.data } :
            ValueAt(FlatFlows, period)
                = SumOver(result.data, { k \in DOMAIN result.data : k[1] = period })

DepthFlowsWitness ==
    /\ call.op = "account_flows"
    /\ call.args.account_depth # None
    /\ \E k1, k2 \in DOMAIN result.data : k1[1] = k2[1] /\ k1[2] # k2[2]
    /\ \E i \in DOMAIN PostingsCalled :
          Len(split_account(PostingsCalled[i].row.account)) < call.args.account_depth[1]

\* the sign-adjusted flows of an account prefix for the income_expense_data call
AdjustedFlowsOf(account_prefix) ==
    account_flows(StoreCalled, PostingsCalled,
                  FlowArgs(account_prefix, call.time_grain, call.currency,
                           None, TRUE)).data

IncomeFlows == AdjustedFlowsOf(account_types(StoreCalled).income)
ExpenseFlows == AdjustedFlowsOf(account_types(StoreCalled).expenses)

\* C4: the table of income_expense_data has one row for every period with an
\* income flow or an expense flow; the income and expense columns hold that
\* period's flows (0 where the period has none) and Savings is their difference.
SavingsIsIncomeMinusExpenses ==
    (call.op = "income_expense_data" /\ result.kind = "table") =>
        /\ DOMAIN result.data = DOMAIN IncomeFlows \cup DOMAIN ExpenseFlows
        /\ \A period \in DOMAIN result.data :
              /\ result.data[period].income = ValueAt(IncomeFlows, period)
              /\ result.data[period].expenses = ValueAt(ExpenseFlows, period)
              /\ result.data[period].Savings
                    = ValueAt(IncomeFlows, period) - ValueAt(ExpenseFlows, period)

SavingsWitness ==
    /\ call.op = "income_expense_data"
    /\ result.kind = "table"
    /\ \E period \in DOMAIN result.data :
          period \notin DOMAIN IncomeFlows /\ result.data[period].expenses > 0
    /\ \E period \in DOMAIN result.data :
          /\ result.data[period].income > 0
          /\ result.data[period].expenses > 0
          /\ result.data[period].Savings # 0

RECURSIVE DeductionsAt(_, _, _)
DeductionsAt(accounts, k, period) ==
    IF k > Len(accounts) THEN 0
    ELSE ValueAt(AdjustedFlowsOf(accounts[k]), period)
            + DeductionsAt(accounts, k + 1, period)

\* C5: in every row of the table of income_expense_data, Disposable is the
\* row's income minus the flows of the income-deduction accounts in its period,
\* also where the period has expenses but no income postings.
DisposableIsIncomeMinusDeductions ==
    (call.op = "income_expense_data" /\ result.kind = "table") =>
        \A period \in DOMAIN result.data :
            /\ ~ result.data[period].Disposable.nan
            /\ result.data[period].Disposable.value
                  = result.data[period].income
                      - DeductionsAt(StoreCalled.config.income_deduction_accounts,
                                     1, period)

Root(account_prefix) == split_account(account_prefix)[1]

\* what the same call without adjust_sign returns
PlainFlows ==
    account_flows(StoreCalled, PostingsCalled,
                  [call.args EXCEPT !.adjust_sign = FALSE])

\* C6: for a prefix whose first segment is the display name of income or of
\* liabilities, adjust_sign = True returns the negation, key by key, of what
\* adjust_sign = False returns.
AdjustSignNegatesIncomeAndLiabilities ==
    (/\ call.op = "account_flows"
     /\ call.args.adjust_sign
     /\ Root(call.args.account_prefix)
            \in { StoreCalled.options.name_income,
                  StoreCalled.options.name_liabilities }) =>
        /\ DOMAIN result.data = DOMAIN PlainFlows.data
        /\ \A k \in DOMAIN result.data : result.data[k] + PlainFlows.data[k] = 0

AdjustSignWitness ==
    /\ call.op = "account_flows"
    /\ call.args.adjust_sign
    /\ Root(call.args.account_prefix) = StoreCalled.options.name_liabilities
    /\ \E k \in DOMAIN result.data : result.data[k] > 0

UnknownRoot ==
    Root(call.args.account_prefix)
        \notin { account_types(StoreCalled)[tp] :
                    tp \in { ACCOUNT_TYPE_NAMES[n] : n \in DOMAIN ACCOUNT_TYPE_NAMES } }

\* C7 as stated: with adjust_sign = True and a first segment that is no
\* configured display name, account_flows fails and returns no flows.
UnknownRootFails ==
    (call.op = "account_flows" /\ call.args.adjust_sign /\ UnknownRoot) =>
        result.kind = "error"

\* C7 amended: with adjust_sign = True and a first segment that is no configured
\* display name, account_flows does not fail: it returns the flows it returns
\* with adjust_sign = False.
UnknownRootLeavesFlowsUnadjusted ==
    (call.op = "account_flows" /\ call.args.adjust_sign /\ UnknownRoot) =>
        /\ result.kind \in { "series", "frame" }
        /\ result = PlainFlows

UnknownRootWitness ==
    /\ call.op = "account_flows"
    /\ call.args.adjust_sign
    /\ UnknownRoot
    /\ \E k \in DOMAIN result.data : result.data[k] # 0

\* C8: no call changes the loaded store: its configuration, options and table
\* references stay, and its three tables keep their rows, order and values.
LoadedStoreUnchanged ==
    [][/\ ledger' = ledger
       /\ \A kind \in Kinds : heap'[ledger[kind]] = heap[ledger[kind]]]_vars

\* account_flows rewrote the accounts of its working frame, on a store that
\* shares the loaded store's posting table
SharedFrameWitness ==
    /\ call.op = "account_flows"
    /\ call.self = "sub"
    /\ sub[1].postings = ledger.postings
    /\ call.args.account_depth # None
    /\ \E i \in DOMAIN heap[Work] :
          heap[Work][i].row.account # SourceRow(heap[Work][i]).row.account

SelectedPeriods ==
    { PeriodStart(heap[Work][i].row.date, frequency(call.args.time_grain)) :
        i \in DOMAIN heap[Work] }

ResultPeriods ==
    IF call.args.account_depth = None THEN DOMAIN result.data
    ELSE { k[1] : k \in DOMAIN result.data }

\* C9 as stated: the result of account_flows holds a period only if a selected
\* posting has its date in that period.
EmptyPeriodsAbsent ==
    call.op = "account_flows" => ResultPeriods \subseteq SelectedPeriods

\* C9 amended: with account_depth the result holds exactly the periods that have
\* a selected posting; without account_depth it holds every period from the
\* earliest to the latest one that has a selected posting, those in between
\* that have none with value 0.
EmptyPeriodsAbsentOrZero ==
    call.op = "account_flows" =>
        IF call.args.account_depth # None THEN ResultPeriods = SelectedPeriods
        ELSE /\ SelectedPeriods \subseteq ResultPeriods
             /\ \A p \in ResultPeriods :
                   /\ \E q \in SelectedPeriods : q <= p
                   /\ \E q \in SelectedPeriods : p <= q
                   /\ p \notin SelectedPeriods => result.data[p] = 0
             /\ \A d \in 0..MaxDate :
                   LET p == PeriodStart(d, frequency(call.args.time_grain)) IN
                   ((\E q \in SelectedPeriods : q <= p)
                       /\ (\E q \in SelectedPeriods : p <= q)) => p \in ResultPeriods

ZeroPeriodWitness ==
    /\ call.op = "account_flows"
    /\ call.args.account_depth = None
    /\ \E p \in ResultPeriods : p \notin SelectedPeriods /\ result.data[p] = 0

Segments == split_account(call.account)

\* C10 as stated: account_at_depth returns the first depth segments joined by
\* ':', the empty path for every depth <= 0 and the path itself for every depth
\* of at least the number of segments, and truncating again changes nothing.
NonPositiveDepthGivesEmptyPath ==
    call.op = "account_at_depth" =>
        /\ call.depth <= 0 => result.value = << >>
        /\ call.depth >= Len(Segments) => result.value = call.account
        /\ call.depth >= 1 =>
              split_account(result.value)
                  = SubSeq(Segments, 1, Min(call.depth, Len(Segments)))
        /\ account_at_depth(result.value, call.depth) = result.value

\* C10 amended: for depth >= 0 account_at_depth returns the first depth segments
\* joined by ':' (the empty path for depth 0, the path itself for a depth of at
\* least the number of segments) and truncating again at that depth changes
\* nothing; for a negative depth -k it returns the path without its last k
\* segments, the empty path when k is at least the number of segments.
AccountAtDepthSlices ==
    call.op = "account_at_depth" =>
        /\ result.kind = "str"
        /\ call.depth = 0 => result.value = << >>
        /\ call.depth >= Len(Segments) => result.value = call.account
        /\ call.depth >= 1 =>
              split_account(result.value)
                  = SubSeq(Segments, 1, Min(call.depth, Len(Segments)))
        /\ call.depth >= 0 => account_at_depth(result.value, call.depth) = result.value
        /\ (call.depth < 0 /\ 0 - call.depth < Len(Segments)) =>
              split_account(result.value)
                  = SubSeq(Segments, 1, Len(Segments) + call.depth)
        /\ (call.depth < 0 /\ 0 - call.depth >= Len(Segments)) =>
              result.value = << >>

NegativeDepthWitness ==
    /\ call.op = "account_at_depth"
    /\ call.depth < 0
    /\ result.value # << >>
    /\ result.value # call.account

====
